---- MODULE Spec2Model ----
(***************************************************************************)
(* Model of redux-first-router's BrowserHistory (src/unnamed/part_000):    *)
(* the pop handler with its one-shot forced flag and revert callback, the  *)
(* module-level settle-wait serializer (tryChange / rapidChangeWorkaround) *)
(* and the native operations _push, _replace and _jump built on it; and    *)
(* of the URL translator (src/src/utils/urlToAction.js) and of the         *)
(* lifecycle-callback middleware (src/unnamed/part_002).                   *)
(*                                                                         *)
(* Conventions.  URLs are the integers 1..NumUrls.  Positions in `entries` *)
(* and in the native stack are 1-based (the code's index i is i + 1 here). *)
(* A JavaScript task (an event handler, a timer callback, an API call)     *)
(* runs to completion and the microtasks it queued run before the next     *)
(* task: every task action below is guarded by microQ = <<>>, and the      *)
(* Micro actions run the promise jobs one at a time, in the order the      *)
(* promises queued them (a `then` callback, the job that adopts a promise  *)
(* returned by a callback, the job that settles the adopting promise).     *)
(***************************************************************************)
EXTENDS Integers, Sequences, FiniteSets, TLC

\* ------------------------------------------------------------- bounds
NumUrls == 3
MaxWaits == 3
MaxUserPops == 2
MaxTasks == 2
MaxRevertCalls == 2
NumEntries == 3
NumWaitUrls == 2
MaxJump == 1
MaxResets == 1

URLS == 1..NumUrls

\* Histories of NumEntries entries in which consecutive entries differ; an
\* entry may repeat an earlier URL (a -> b -> a)
EntryLists ==
  {e \in [1..NumEntries -> URLS] : \A i \in 1..(NumEntries - 1) : e[i] # e[i + 1]}

\* ------------------------------------------------- program constants
maxTries == 10

VARIABLES
  entries,     \* History.entries: the engine's URLs, in order
  index,       \* History.index (1-based)
  pendingPop,  \* this.pendingPop: 0 (unset), 1 or -1
  popForced,   \* this._popForced
  gate,        \* pops handed to jump() whose gate decision is outstanding
  closure,     \* the revertPop closure of the pop decided last
  natStack,    \* the browser's session history (URLs)
  natPos,      \* the browser's position in it; window.location is natStack[natPos]
  travQ,       \* traversals the browser has been asked for and not yet performed
  tries,       \* module-level `tries`
  queue,       \* module-level `queue` (wait ids)
  timer,       \* the wait whose setTimeout is armed, 0 when none
  waits,       \* every settle-wait requested so far, by id (arrival order)
  completed,   \* ids of the waits whose complete() was called, in call order
  testMode,    \* process.env.NODE_ENV === 'test'
  tasks,       \* the native operations started so far
  microQ,      \* the microtask queue: promise jobs [t, job] of task t
  userPops,    \* how many times the user pressed back / forward
  last,        \* what the step just taken did (handler, native calls)
  args,        \* the call of the URL translator or of the middleware under examination
  result,      \* what that call returned or threw
  mw           \* how far the call of the middleware has come

vars == <<entries, index, pendingPop, popForced, gate, closure, natStack, natPos,
          travQ, tries, queue, timer, waits, completed, testMode, tasks, microQ,
          userPops, last, args, result, mw>>

\* the translator is a pure function of its arguments: a call and its result
\* are kept apart from the state of BrowserHistory
translation == <<args, result>>
NoCall == [fn |-> "none"]
NoResult == [t |-> "none"]
NoRun == [pc |-> "none"]

popVars == <<pendingPop, popForced, gate, closure>>
engineVars == <<entries, index>>
browserVars == <<natStack, natPos, travQ>>
settleVars == <<tries, queue, timer, waits, completed>>

\* window.location, as locationToUrl reads it
locationToUrl == natStack[natPos]

\* `last` when nothing of interest happened: h is the handler that ran, id the
\* wait or task it ran for, forced/pending/sameUrl the pop handler's view before
\* it acted, by who caused the pop, go the deltas passed to _forceGo, jumps the
\* number of jump() calls, native the native mutation issued and from the URL
\* the browser reported when it was issued.
NoStep == [h |-> "none", id |-> 0, forced |-> FALSE, pending |-> 0, sameUrl |-> FALSE,
           by |-> "none", go |-> <<>>, jumps |-> 0, native |-> "none", from |-> 0]

\* ------------------------------------------------ the settle serializer

\* The serializer's state as one value, so that the synchronous call chain
\* tryChange -> rapidChangeWorkaround -> complete -> rapidChangeWorkaround ...
\* is computed in one step.
Settle == [tries |-> tries, queue |-> queue, timer |-> timer, waits |-> waits,
           completed |-> completed, microQ |-> microQ]

\* a variant of MayRetry that allows one check more
MayRetry_inclusive(ready, t) == ~ready /\ t <= maxTries

\* line 231: retry while the URL differs and tries are left
MayRetry(ready, t) == ~ready /\ t < maxTries

\* a variant of MustThrow that tolerates the failure in every mode
MustThrow_never(ready) == FALSE

\* line 236: the fatal error of strict/test mode
MustThrow(ready) == testMode /\ ~ready

\* The promise job complete() (the promise's resolve, line 207) queues for wait w:
\* the `then` callback attached to the wait's promise ("direct"), or, when a
\* callback returned the wait's promise and the adopting promise has registered
\* on it ("adopted"), the job settling the adopting promise
Resolved(q, w) ==
  IF w.mode = "adopted"
    THEN IF w.reg THEN Append(q, [t |-> w.task, job |-> "settle"]) ELSE q
    ELSE Append(q, [t |-> w.task, job |-> "cb"])

\* a variant of QueueShift that takes the newest request (queue.pop())
QueueShift_lifo(q) == [item |-> q[Len(q)], rest |-> SubSeq(q, 1, Len(q) - 1)]

\* line 243: queue.shift()
QueueShift(q) == [item |-> Head(q), rest |-> Tail(q)]

\* What is kept of the number of checks of a wait that has finished: the count
\* when the wait used up its tries, 0 otherwise (no claim reads it)
Kept(n) == IF n >= maxTries THEN n ELSE 0

\* lines 228-249.  s is the serializer's state, id the wait checked, cur the URL
\* the browser reports.  Each wait records its checks (polls), the result of the
\* last one (lastReady) and where it stands: queued, polling (a timer is armed),
\* done (complete() was called) or failed (the error of line 237 was thrown).
RECURSIVE rapidChangeWorkaround(_, _, _)
rapidChangeWorkaround(s, id, cur) ==
  LET ready == (s.waits[id].url = cur)
      t1 == s.tries + 1
      n1 == s.waits[id].polls + 1
      s1 == [s EXCEPT !.tries = t1,
                      !.waits[id].polls = n1,
                      !.waits[id].lastReady = ready,
                      !.waits[id].st = "polling"]
  IN IF MayRetry(ready, t1)
       THEN [s1 EXCEPT !.timer = id]
       ELSE IF MustThrow(ready)
         THEN [s1 EXCEPT !.waits[id].st = "failed", !.waits[id].polls = Kept(n1)]
         ELSE LET s2 == [s1 EXCEPT !.waits[id].st = "done",
                                   !.waits[id].polls = Kept(n1),
                                   !.completed = Append(@, id),
                                   !.microQ = Resolved(@, s.waits[id]),
                                   !.tries = 0]
              IN IF s2.queue = <<>>
                   THEN s2
                   ELSE LET sh == QueueShift(s2.queue)
                        IN rapidChangeWorkaround([s2 EXCEPT !.queue = sh.rest], sh.item, cur)

\* a variant of tryChange that never queues
tryChange_eager(s, id, cur) == rapidChangeWorkaround(s, id, cur)

\* lines 223-226
tryChange(s, id, cur) ==
  IF s.tries = 0
    THEN rapidChangeWorkaround(s, id, cur)
    ELSE [s EXCEPT !.queue = Append(@, id), !.waits[id].wasQueued = TRUE]

\* lines 206-212: a new wait for `url` on behalf of task t
_awaitLocation(s, url, t, mode) ==
  LET id == Len(s.waits) + 1
      w == [url |-> url, task |-> t, mode |-> mode, reg |-> FALSE, polls |-> 0,
            lastReady |-> FALSE, st |-> "queued", wasQueued |-> FALSE]
  IN tryChange([s EXCEPT !.waits = Append(@, w)], id, locationToUrl)

SetSettle(s) ==
  /\ tries' = s.tries
  /\ queue' = s.queue
  /\ timer' = s.timer
  /\ waits' = s.waits
  /\ completed' = s.completed
  /\ microQ' = s.microQ

\* the setTimeout callback of line 233
Timer ==
  /\ microQ = <<>>
  /\ timer # 0
  /\ SetSettle(rapidChangeWorkaround([Settle EXCEPT !.timer = 0], timer, locationToUrl))
  /\ last' = [NoStep EXCEPT !.h = "timer", !.id = timer]
  /\ UNCHANGED <<popVars, engineVars, browserVars, testMode, tasks, userPops>>
  /\ UNCHANGED <<translation, mw>>

\* ------------------------------------------------------ the pop handler

\* History.url: the engine's current URL
url == entries[index]

\* History._isNext: does the reported location match the next entry?
_isNext(locUrl) == index + 1 <= Len(entries) /\ entries[index + 1] = locUrl

\* line 87
Direction(locUrl) == IF _isNext(locUrl) THEN 1 ELSE -1

\* a variant of ReversalGo that forces the flipped direction itself
ReversalGo_flipped(p) == p * (-1)

\* lines 90-92: n = pendingPop * -1, then _forceGo(n * -1)
ReversalGo(p) == (p * (-1)) * (-1)

\* a variant of RepeatGo that forces the pending direction again
RepeatGo_same(p) == p

\* lines 95-96: n = pendingPop, then _forceGo(n * -1)
RepeatGo(p) == p * (-1)

\* line 86: a pop is handed to jump() only when none is pending
IsFirstPop == pendingPop = 0

\* lines 128-131: the traversal window.history.go(n) asks the browser for
_forceGo(q, n) == Append(q, [d |-> n, by |-> "engine"])

\* A pop the user caused that is handled after pop g was handed to the gate
Seen(g, by) == IF by = "user" THEN [g EXCEPT !.clean = FALSE] ELSE g

\* lines 82-111, for the pop event reporting locUrl, caused by `by`, with q the
\* traversals still outstanding
handlePop(locUrl, by, q) ==
  LET seenGate == [i \in DOMAIN gate |-> Seen(gate[i], by)]
      seenClosure == Seen(closure, by)
      step == [NoStep EXCEPT !.h = "handlePop", !.forced = popForced,
                             !.pending = pendingPop, !.sameUrl = (locUrl = url),
                             !.by = by]
  IN IF popForced
       THEN /\ popForced' = FALSE
            /\ travQ' = q
            /\ gate' = seenGate
            /\ closure' = seenClosure
            /\ last' = step
            /\ UNCHANGED pendingPop
       ELSE IF IsFirstPop
         THEN LET n == Direction(locUrl)
              IN /\ pendingPop' = n
                 /\ gate' = Append(seenGate, [n |-> n, by |-> by, prePos |-> natPos,
                                              preIndex |-> index, preEntries |-> entries,
                                              clean |-> TRUE])
                 /\ closure' = seenClosure
                 /\ travQ' = q
                 /\ last' = [step EXCEPT !.jumps = 1]
                 /\ UNCHANGED popForced
         ELSE LET d == IF locUrl = url THEN ReversalGo(pendingPop)
                                      ELSE RepeatGo(pendingPop)
              IN /\ popForced' = TRUE
                 /\ travQ' = _forceGo(q, d)
                 /\ gate' = seenGate
                 /\ closure' = seenClosure
                 /\ last' = [step EXCEPT !.go = <<d>>]
                 /\ UNCHANGED pendingPop

\* The browser performs the oldest outstanding traversal: it moves, then fires
\* popstate (lines 115-118); a delta that leaves the stack does nothing.
Traverse ==
  /\ microQ = <<>>
  /\ travQ # <<>>
  /\ LET tr == Head(travQ)
         p == natPos + tr.d
     IN IF p \in 1..Len(natStack)
          THEN /\ natPos' = p
               /\ handlePop(natStack[p], tr.by, Tail(travQ))
          ELSE /\ travQ' = Tail(travQ)
               /\ last' = [NoStep EXCEPT !.h = "noTraversal", !.by = tr.by]
               /\ UNCHANGED <<natPos, popVars>>
  /\ UNCHANGED <<engineVars, natStack, settleVars, testMode, tasks, microQ, userPops>>
  /\ UNCHANGED <<translation, mw>>

\* ------------------------------------------- the gate (History.jump)

NoClosure == [n |-> 0, by |-> "none", st |-> "none", reverted |-> FALSE, calls |-> 0,
              gos |-> <<>>, prePos |-> 0, preIndex |-> 0, preEntries |-> <<>>,
              clean |-> TRUE]

\* History.jump's index arithmetic: the delta is clamped to the entries
ClampIndex(i) == IF i < 1 THEN 1 ELSE IF i > Len(entries) THEN Len(entries) ELSE i

\* lines 101-105: the deltas revertPop passes to _forceGo when called on closure c
revertPop(c) == IF ~c.reverted THEN <<c.n * (-1)>> ELSE <<>>

\* The gate vetoes the pop and calls the revert callback
GateVeto ==
  /\ microQ = <<>>
  /\ \E i \in DOMAIN gate :
       LET c == [NoClosure EXCEPT !.n = gate[i].n, !.by = gate[i].by,
                                  !.st = "vetoed", !.prePos = gate[i].prePos,
                                  !.preIndex = gate[i].preIndex,
                                  !.preEntries = gate[i].preEntries,
                                  !.clean = gate[i].clean]
           go == revertPop(c)
       IN /\ gate' = [j \in 1..(Len(gate) - 1) |-> IF j < i THEN gate[j] ELSE gate[j + 1]]
          /\ closure' = [c EXCEPT !.reverted = TRUE, !.calls = 1, !.gos = go]
          /\ popForced' = (popForced \/ go # <<>>)
          /\ travQ' = IF go = <<>> THEN travQ ELSE _forceGo(travQ, go[1])
          /\ last' = [NoStep EXCEPT !.h = "revertPop", !.go = go]
  /\ pendingPop' = 0
  /\ UNCHANGED <<engineVars, natStack, natPos, settleVars, testMode, tasks, microQ,
                 userPops>>
  /\ UNCHANGED <<translation, mw>>

\* The revert callback of the vetoed pop is called once more
RevertAgain ==
  /\ microQ = <<>>
  /\ closure.st = "vetoed"
  /\ closure.calls < MaxRevertCalls
  /\ LET go == revertPop(closure)
     IN /\ closure' = [closure EXCEPT !.reverted = TRUE, !.calls = @ + 1,
                                      !.gos = @ \o go]
        /\ popForced' = (popForced \/ go # <<>>)
        /\ travQ' = IF go = <<>> THEN travQ ELSE _forceGo(travQ, go[1])
        /\ last' = [NoStep EXCEPT !.h = "revertPop", !.go = go]
  /\ UNCHANGED <<pendingPop, gate, engineVars, natStack, natPos, settleVars, testMode,
                 tasks, microQ, userPops>>
  /\ UNCHANGED <<translation, mw>>

\* The user presses back (d = -1) or forward (d = 1) where the button is enabled
UserPop(d) ==
  /\ microQ = <<>>
  /\ userPops < MaxUserPops
  /\ natPos + d \in 1..Len(natStack)
  /\ travQ' = Append(travQ, [d |-> d, by |-> "user"])
  /\ userPops' = userPops + 1
  /\ last' = [NoStep EXCEPT !.h = "userPop"]
  /\ UNCHANGED <<popVars, engineVars, natStack, natPos, settleVars, testMode, tasks, microQ>>
  /\ UNCHANGED <<translation, mw>>

\* ------------------------------------------------- native operations

\* The links of a promise chain.  An await is "direct" when the next link is a
\* `then` callback on the wait's own promise, "adopted" when a `then` callback
\* returns the wait's promise (`.then(() => this._awaitLocation(..))`), "nested"
\* when a `then` callback returns the promise of a _replace, whose first link
\* the await is (`.then(() => this._replace(loc))`).
AwaitD(u) == [op |-> "await", arg |-> u, mode |-> "direct"]
AwaitA(u) == [op |-> "await", arg |-> u, mode |-> "adopted"]
Go(n) == [op |-> "go", arg |-> n, mode |-> "cb"]
PushState(u) == [op |-> "pushState", arg |-> u, mode |-> "cb"]
ReplaceState(u) == [op |-> "replaceState", arg |-> u, mode |-> "cb"]

\* lines 133-138: the promise chain of _push, awaiting awaitLoc || this.prevUrl
_push(u, awaitUrl) == <<AwaitD(awaitUrl), PushState(u)>>

\* lines 140-152: the chain of _replace; with n it starts with _forceGo(n)
_replace(u, awaitUrl, n) ==
  IF n # 0 THEN <<Go(n), AwaitD(awaitUrl), ReplaceState(u)>>
           ELSE <<AwaitD(awaitUrl), ReplaceState(u)>>

\* a variant of _jump that does not wait for the target before its _replace
_jump_nowait(u, n, isPop, prevUrl) ==
  IF n = 0 THEN _replace(u, prevUrl, 0)
  ELSE IF isPop THEN <<>>
  ELSE <<AwaitD(prevUrl), Go(n)>> \o _replace(u, u, 0)

\* a variant of _jump that treats a pop like any other jump
_jump_popblind(u, n, isPop, prevUrl) ==
  IF n = 0 THEN _replace(u, prevUrl, 0)
  ELSE <<AwaitD(prevUrl), Go(n), AwaitA(u)>> \o _replace(u, u, 0)

\* lines 154-167: the chain of _jump to the entry with URL u, prevUrl read on entry
_jump(u, n, isPop, prevUrl) ==
  IF n = 0 THEN _replace(u, prevUrl, 0)
  ELSE IF isPop THEN <<>>
  ELSE <<AwaitD(prevUrl), Go(n), AwaitA(u)>> \o _replace(u, u, 0)

NewTask(kind, n, u, prevUrl, steps) ==
  [kind |-> kind, n |-> n, url |-> u, prev |-> prevUrl, steps |-> steps,
   gos |-> 0, reps |-> 0, pushes |-> 0]

Job(t, job) == [t |-> t, job |-> job]

\* A chain whose first link is a settle-wait is started: the promise executor of
\* _awaitLocation runs tryChange at once (lines 207-211)
Start(task) ==
  LET t == Len(tasks) + 1
  IN /\ Len(tasks) < MaxTasks
     /\ Head(task.steps).op = "await"
     /\ tasks' = Append(tasks, [task EXCEPT !.steps = Tail(@)])
     /\ SetSettle(_awaitLocation(Settle, Head(task.steps).arg, t, "direct"))
     /\ last' = [NoStep EXCEPT !.h = task.kind, !.id = t]

\* History.prevUrl when a commit runs: the URL the engine was at before it
prevUrl == url

\* no awaitLoc is passed: the wait is for this.prevUrl, read when it starts
NoAwaitLoc == 0

\* lines 136, 146, 150: awaitLoc || this.prevUrl
AwaitUrl(awaitLoc) == IF awaitLoc = NoAwaitLoc THEN prevUrl ELSE awaitLoc

\* the chain of a `then` callback that returns the chain's promise
Nested(chain) == <<[Head(chain) EXCEPT !.mode = "nested"]>> \o Tail(chain)

\* lines 169-183: the chain of _setState for the entry at offset n, with URL
\* loc; prev is prevUrl read on entry, and _replace(loc) gets no awaitLoc
_setState(loc, n, prev) ==
  IF n = 0 THEN _replace(loc, prev, 0)
  ELSE <<AwaitD(prev), Go(n), AwaitA(loc)>> \o Nested(_replace(loc, NoAwaitLoc, 0))
         \o <<Go(-n), AwaitA(prev)>>

\* lines 196-203: the last callback of _reset, which calls _replace, _push and
\* _forceGo itself
ResetTail == [op |-> "reset", arg |-> 0, mode |-> "cb"]

\* lines 185-204: the chain of _reset; loc is the URL of this.entries[0], n is
\* -this.index and prev is prevUrl, all read on entry
_reset(loc, n, prev) == <<AwaitD(prev), Go(n), AwaitA(loc), ResetTail>>

\* lines 197-198: _replace(entries[0]) and _push(e) for every later entry, as
\* the calls [kind, url] in the order they are made
ResetCalls(es) ==
  [i \in 1..Len(es) |-> [kind |-> IF i = 1 THEN "_replace" ELSE "_push", url |-> es[i]]]

\* The calls cs are made one after the other inside one callback: each starts
\* its own chain, whose settle-wait for awaitUrl starts at once.  r holds the
\* serializer (s) and the chains (ts).
RECURSIVE Spawn(_, _, _)
Spawn(r, cs, awaitUrl) ==
  IF cs = <<>> THEN r
  ELSE LET c == Head(cs)
           chain == IF c.kind = "_replace" THEN _replace(c.url, awaitUrl, 0)
                                           ELSE _push(c.url, awaitUrl)
           task == NewTask(c.kind, 0, c.url, awaitUrl, Tail(chain))
           t == Len(r.ts) + 1
       IN Spawn([s |-> _awaitLocation([r.s EXCEPT !.waits = @], Head(chain).arg, t, "direct"),
                 ts |-> Append(r.ts, task)],
                Tail(cs), awaitUrl)

\* A call of a native operation: its chain is started; an operation that
\* returns at once (an empty chain) starts nothing
Call(task, step) ==
  IF task.steps = <<>>
    THEN /\ last' = step
         /\ UNCHANGED <<settleVars, tasks, microQ>>
    ELSE Start(task)

\* The gate approves the pop: the engine moves and _jump(action, n, isPop = true)
\* is called (lines 154-161)
GateCommit ==
  /\ microQ = <<>>
  /\ \E i \in DOMAIN gate :
       LET to == ClampIndex(index + gate[i].n)
       IN /\ index' = to
          /\ gate' = [j \in 1..(Len(gate) - 1) |-> IF j < i THEN gate[j] ELSE gate[j + 1]]
          /\ closure' = [NoClosure EXCEPT !.n = gate[i].n, !.by = gate[i].by,
                                          !.st = "committed", !.prePos = gate[i].prePos,
                                          !.preIndex = gate[i].preIndex,
                                          !.preEntries = gate[i].preEntries,
                                          !.clean = gate[i].clean]
          /\ Call(NewTask("_jump", gate[i].n, entries[to], prevUrl,
                          _jump(entries[to], gate[i].n, TRUE, prevUrl)),
                  [NoStep EXCEPT !.h = "commit"])
  /\ pendingPop' = 0
  /\ UNCHANGED <<popForced, entries, browserVars, testMode, userPops>>
  /\ UNCHANGED <<translation, mw>>

\* The job at the head of the microtask queue, its task and that task's next link
MicroJob == Head(microQ)
MicroTask == MicroJob.t
MicroStep == Head(tasks[MicroTask].steps)
IsCallback == microQ # <<>> /\ MicroJob.job = "cb" /\ tasks[MicroTask].steps # <<>>

\* the wait task t requested last
LastWait(t) == CHOOSE id \in DOMAIN waits :
                 waits[id].task = t /\ \A j \in DOMAIN waits : waits[j].task = t => j <= id

\* a `then` callback that calls _awaitLocation (lines 165) or _replace (line
\* 166): the wait starts; when the callback returns the wait's promise, the job
\* adopting it is queued
MicroAwait ==
  /\ IsCallback
  /\ MicroStep.op = "await"
  /\ tasks' = [tasks EXCEPT ![MicroTask].steps = Tail(@)]
  /\ LET s == _awaitLocation([Settle EXCEPT !.microQ = Tail(microQ)],
                             AwaitUrl(MicroStep.arg), MicroTask, MicroStep.mode)
     IN SetSettle(IF MicroStep.mode \in {"adopted", "nested"}
                    THEN [s EXCEPT !.microQ = Append(@, Job(MicroTask, "thenable"))]
                    ELSE s)
  /\ last' = [NoStep EXCEPT !.h = "await", !.id = MicroTask]
  /\ UNCHANGED <<popVars, engineVars, browserVars, testMode, userPops>>
  /\ UNCHANGED <<translation, mw>>

\* the promise a callback of task t returned is fulfilled: the wait has
\* completed and, for the promise of a _replace, its native call was issued
Fulfilled(t) ==
  /\ waits[LastWait(t)].st = "done"
  /\ waits[LastWait(t)].mode = "nested" =>
        (tasks[t].steps = <<>> \/ Head(tasks[t].steps).op # "replaceState")

\* the job adopting the wait's promise calls its `then`: the settling job is
\* queued at once when the wait has completed, and registered otherwise
MicroThenable ==
  /\ microQ # <<>>
  /\ MicroJob.job = "thenable"
  /\ IF Fulfilled(MicroTask)
       THEN /\ microQ' = Append(Tail(microQ), Job(MicroTask, "settle"))
            /\ waits' = waits
       ELSE /\ microQ' = Tail(microQ)
            /\ waits' = [waits EXCEPT ![LastWait(MicroTask)].reg = TRUE]
  /\ last' = [NoStep EXCEPT !.h = "thenable", !.id = MicroTask]
  /\ UNCHANGED <<popVars, engineVars, browserVars, tries, queue, timer, completed,
                 testMode, tasks, userPops>>
  /\ UNCHANGED <<translation, mw>>

\* the adopting promise is settled: its own `then` callback is queued
MicroSettle ==
  /\ microQ # <<>>
  /\ MicroJob.job = "settle"
  /\ microQ' = IF tasks[MicroTask].steps = <<>>
                 THEN Tail(microQ) ELSE Append(Tail(microQ), Job(MicroTask, "cb"))
  /\ last' = [NoStep EXCEPT !.h = "settle", !.id = MicroTask]
  /\ UNCHANGED <<popVars, engineVars, browserVars, settleVars, testMode, tasks, userPops>>
  /\ UNCHANGED <<translation, mw>>

\* a `then` callback that calls _forceGo (lines 128-131, 164)
MicroGo ==
  /\ IsCallback
  /\ MicroStep.op = "go"
  /\ popForced' = TRUE
  /\ travQ' = _forceGo(travQ, MicroStep.arg)
  /\ tasks' = [tasks EXCEPT ![MicroTask].steps = Tail(@), ![MicroTask].gos = @ + 1]
  /\ microQ' = Append(Tail(microQ), Job(MicroTask, "cb"))
  /\ last' = [NoStep EXCEPT !.h = "go", !.id = MicroTask, !.go = <<MicroStep.arg>>]
  /\ UNCHANGED <<pendingPop, gate, closure, engineVars, natStack, natPos, settleVars,
                 testMode, userPops>>
  /\ UNCHANGED <<translation, mw>>

\* the last callback of _reset (lines 196-203): _replace and every _push are
\* called, each waiting for this.prevUrl, then _forceGo(index - lastIndex)
\* unless the target index is the last one
MicroReset ==
  /\ IsCallback
  /\ MicroStep.op = "reset"
  /\ LET t == MicroTask
         r == Spawn([s |-> [Settle EXCEPT !.microQ = Tail(microQ)],
                     ts |-> [tasks EXCEPT ![t].steps = Tail(@)]],
                    ResetCalls(entries), tasks[t].prev)
         stayAtEnd == index = Len(entries)
         go == IF stayAtEnd THEN <<>> ELSE <<index - Len(entries)>>
     IN /\ SetSettle(r.s)
        /\ tasks' = [r.ts EXCEPT ![t].gos = @ + Len(go)]
        /\ popForced' = (popForced \/ go # <<>>)
        /\ travQ' = IF go = <<>> THEN travQ ELSE _forceGo(travQ, go[1])
        /\ last' = [NoStep EXCEPT !.h = "reset", !.id = t, !.go = go]
  /\ UNCHANGED <<pendingPop, gate, closure, engineVars, natStack, natPos, testMode,
                 userPops>>
  /\ UNCHANGED <<translation, mw>>

\* window.history.pushState: the entries after the current one are dropped
NativePush(u) ==
  /\ natStack' = Append(SubSeq(natStack, 1, natPos), u)
  /\ natPos' = natPos + 1

\* window.history.replaceState
NativeReplace(u) ==
  /\ natStack' = [natStack EXCEPT ![natPos] = u]
  /\ natPos' = natPos

\* a `then` callback that issues the native mutation (lines 137, 147, 151)
MicroNative ==
  /\ IsCallback
  /\ MicroStep.op \in {"pushState", "replaceState"}
  /\ IF MicroStep.op = "pushState" THEN NativePush(MicroStep.arg)
                                     ELSE NativeReplace(MicroStep.arg)
  /\ tasks' = [tasks EXCEPT ![MicroTask].steps = Tail(@),
                            ![MicroTask].pushes =
                               IF MicroStep.op = "pushState" THEN @ + 1 ELSE @,
                            ![MicroTask].reps =
                               IF MicroStep.op = "replaceState" THEN @ + 1 ELSE @]
  /\ microQ' = IF waits[LastWait(MicroTask)].mode = "nested" /\ waits[LastWait(MicroTask)].reg
                 THEN Append(Tail(microQ), Job(MicroTask, "settle"))
                 ELSE Tail(microQ)
  /\ last' = [NoStep EXCEPT !.h = "native", !.id = MicroTask, !.native = MicroStep.op,
                            !.from = locationToUrl]
  /\ UNCHANGED <<popVars, engineVars, travQ, settleVars, testMode, userPops>>
  /\ UNCHANGED <<translation, mw>>

\* the wait's promise has no `then` callback in this module: the caller's runs
MicroDone ==
  /\ microQ # <<>>
  /\ MicroJob.job = "cb"
  /\ tasks[MicroTask].steps = <<>>
  /\ microQ' = Tail(microQ)
  /\ last' = [NoStep EXCEPT !.h = "resolved", !.id = MicroTask]
  /\ UNCHANGED <<popVars, engineVars, browserVars, settleVars, testMode, tasks, userPops>>
  /\ UNCHANGED <<translation, mw>>

\* ---------------------------------------- specification: settle-waits

\* _awaitLocation(u) called on its own (lines 206-212)
Request(u) ==
  /\ microQ = <<>>
  /\ Len(waits) < MaxWaits
  /\ LET t == Len(tasks) + 1
     IN /\ tasks' = Append(tasks, NewTask("_awaitLocation", 0, u, 0, <<>>))
        /\ SetSettle(_awaitLocation(Settle, u, t, "direct"))
        /\ last' = [NoStep EXCEPT !.h = "_awaitLocation", !.id = t]
  /\ UNCHANGED <<popVars, engineVars, browserVars, testMode, userPops>>
  /\ UNCHANGED <<translation, mw>>

\* window.location changes while no pop listener is attached (before listen(),
\* lines 69-74): the browser moves to another entry
LocationChange(p) ==
  /\ microQ = <<>>
  /\ p # natPos
  /\ natPos' = p
  /\ last' = [NoStep EXCEPT !.h = "location"]
  /\ UNCHANGED <<popVars, engineVars, natStack, travQ, settleVars, testMode, tasks,
                 microQ, userPops>>
  /\ UNCHANGED <<translation, mw>>

InitWait ==
  /\ entries = [i \in 1..NumWaitUrls |-> i]
  /\ index \in 1..NumWaitUrls
  /\ pendingPop = 0
  /\ popForced = FALSE
  /\ gate = <<>>
  /\ closure = NoClosure
  /\ natStack = entries
  /\ natPos = index
  /\ travQ = <<>>
  /\ tries = 0
  /\ queue = <<>>
  /\ timer = 0
  /\ waits = <<>>
  /\ completed = <<>>
  /\ testMode \in BOOLEAN
  /\ tasks = <<>>
  /\ microQ = <<>>
  /\ userPops = 0
  /\ last = NoStep
  /\ args = NoCall
  /\ result = NoResult
  /\ mw = NoRun

NextWait ==
  \/ \E u \in 1..NumWaitUrls : Request(u)
  \/ \E p \in 1..NumWaitUrls : LocationChange(p)
  \/ Timer
  \/ MicroDone

SpecWait == InitWait /\ [][NextWait]_vars

\* timers fire and microtasks run
SpecWaitFair == SpecWait /\ WF_vars(Timer) /\ WF_vars(MicroDone)

\* ---------------------------------------------------- claims C5 - C8

WaitIds == DOMAIN waits
InQueue(id) == \E i \in DOMAIN queue : queue[i] = id
IsCompleted(id) == \E i \in DOMAIN completed : completed[i] = id

\* C5: at most one wait is polling; the polling wait is the one whose timer is
\* armed; a wait that is in the queue has not checked the URL yet, and a wait is
\* put in the queue exactly when it is requested while tries > 0.
C5_OnePollerAtATime ==
  /\ \A a, b \in WaitIds : (waits[a].st = "polling" /\ waits[b].st = "polling") => a = b
  /\ \A a \in WaitIds : waits[a].st = "polling" => (timer = a /\ tries > 0 /\ ~InQueue(a))
  /\ \A a \in WaitIds : InQueue(a) => (waits[a].st = "queued" /\ waits[a].polls = 0)
  /\ \A a \in WaitIds : waits[a].st = "queued" => (InQueue(a) /\ tries > 0)

C5_Witness ==
  \E a, b \in WaitIds : waits[a].st = "polling" /\ waits[a].polls > 1 /\ InQueue(b)

\* C6: complete() is called in arrival order: the k-th completion is that of
\* the k-th request.
C6_CompleteInArrivalOrder == \A i \in DOMAIN completed : completed[i] = i

C6_Witness ==
  /\ completed = <<1, 2, 3>>
  /\ waits[2].wasQueued /\ waits[3].wasQueued
  /\ waits[1].url # waits[2].url

\* C7: while timers fire, every request that was made eventually completes or
\* throws the error of the retry bound, in test mode as well as outside it: no
\* request stays pending forever.  (A wait that has ended stays ended, so this
\* is: again and again, no request is pending.)
C7_EveryWaitEnds ==
  []<>(\A a \in WaitIds : waits[a].st \in {"done", "failed"})

\* C8: a wait checks the URL at most maxTries times, its next check being a
\* timer callback; a wait that found the URL different at its last check has
\* made maxTries checks and, in test mode, threw and is never completed nor
\* checked again, and outside test mode completed.
C8_BoundedRetries ==
  \A a \in WaitIds :
    /\ waits[a].polls <= maxTries
    /\ waits[a].st = "polling" => (waits[a].polls < maxTries /\ ~waits[a].lastReady
                                   /\ timer = a)
    /\ waits[a].st = "failed" => (testMode /\ ~waits[a].lastReady
                                  /\ waits[a].polls = maxTries
                                  /\ ~IsCompleted(a) /\ timer # a /\ ~InQueue(a))
    /\ waits[a].st = "done" => (IsCompleted(a)
                                /\ (~waits[a].lastReady =>
                                      (~testMode /\ waits[a].polls = maxTries)))

C8_Witness ==
  \E a \in WaitIds : waits[a].st = "failed" /\ waits[a].polls = maxTries

C8_WitnessSilent ==
  \E a \in WaitIds : waits[a].st = "done" /\ ~waits[a].lastReady

\* ------------------------------------- specification: native operations

\* History.push commits: the entries after the current one are dropped, the new
\* entry is appended, and _push is called (lines 133-138)
CallPush(u) ==
  /\ microQ = <<>>
  /\ entries' = Append(SubSeq(entries, 1, index), u)
  /\ index' = index + 1
  /\ Start(NewTask("_push", 0, u, prevUrl, _push(u, prevUrl)))
  /\ UNCHANGED <<popVars, browserVars, testMode, userPops>>
  /\ UNCHANGED <<translation, mw>>

\* History.replace commits: the current entry is overwritten, and _replace is
\* called without awaitLoc and n (lines 140-152)
CallReplace(u) ==
  /\ microQ = <<>>
  /\ entries' = [entries EXCEPT ![index] = u]
  /\ index' = index
  /\ Start(NewTask("_replace", 0, u, prevUrl, _replace(u, prevUrl, 0)))
  /\ UNCHANGED <<popVars, browserVars, testMode, userPops>>
  /\ UNCHANGED <<translation, mw>>

\* History.jump(n) commits for a call of the application (isPop false): the
\* index moves, and _jump is called (lines 154-167)
CallJump(n) ==
  /\ microQ = <<>>
  /\ index + n \in 1..Len(entries)
  /\ index' = index + n
  /\ entries' = entries
  /\ Start(NewTask("_jump", n, entries[index + n], prevUrl,
                   _jump(entries[index + n], n, FALSE, prevUrl)))
  /\ UNCHANGED <<popVars, browserVars, testMode, userPops>>
  /\ UNCHANGED <<translation, mw>>

JumpDeltas == -MaxJump..MaxJump

InitOps ==
  /\ entries \in EntryLists
  /\ index \in 1..NumEntries
  /\ pendingPop = 0
  /\ popForced = FALSE
  /\ gate = <<>>
  /\ closure = NoClosure
  /\ natStack = entries
  /\ natPos = index
  /\ travQ = <<>>
  /\ tries = 0
  /\ queue = <<>>
  /\ timer = 0
  /\ waits = <<>>
  /\ completed = <<>>
  /\ testMode \in BOOLEAN
  /\ tasks = <<>>
  /\ microQ = <<>>
  /\ userPops = 0
  /\ last = NoStep
  /\ args = NoCall
  /\ result = NoResult
  /\ mw = NoRun

NextOps ==
  \/ \E u \in URLS : CallPush(u)
  \/ \E u \in URLS : CallReplace(u)
  \/ \E n \in JumpDeltas : CallJump(n)
  \/ MicroAwait
  \/ MicroThenable
  \/ MicroSettle
  \/ MicroGo
  \/ MicroNative
  \/ Timer
  \/ Traverse
  \/ GateCommit
  \/ GateVeto

SpecOps == InitOps /\ [][NextOps]_vars

\* --------------------------------------------------- claims C9 - C10

\* the waits task t has requested, in request order
WaitsOf(t) == SelectSeq(waits, LAMBDA w : w.task = t)
AllDone(ws) == \A i \in DOMAIN ws : ws[i].st = "done"
Urls(ws) == [i \in DOMAIN ws |-> ws[i].url]

\* the step just taken issued the native mutation of a _push or a plain _replace
PlainNative == last.h = "native" /\ tasks[last.id].kind \in {"_push", "_replace"}

\* C9 as stated: pushState / replaceState of _push and plain _replace is issued
\* after the wait for the awaited URL (prevUrl) completed, with the browser
\* reporting that URL when it is issued.
C9_NativeAtAwaitedUrl ==
  PlainNative =>
    /\ Urls(WaitsOf(last.id)) = <<tasks[last.id].prev>>
    /\ AllDone(WaitsOf(last.id))
    /\ last.from = tasks[last.id].prev

\* C9 amended: pushState / replaceState of _push and plain _replace is issued
\* after the one wait for the awaited URL (prevUrl) completed; in test mode the
\* browser reported that URL at the check that completed the wait.
C9_NativeAfterWait ==
  PlainNative =>
    /\ Urls(WaitsOf(last.id)) = <<tasks[last.id].prev>>
    /\ AllDone(WaitsOf(last.id))
    /\ tasks[last.id].steps = <<>>
    /\ testMode => WaitsOf(last.id)[1].lastReady

C9_Witness ==
  /\ PlainNative /\ last.native = "pushState" /\ testMode
  /\ WaitsOf(last.id)[1].wasQueued

\* a jump by a non-zero delta that the application asked for
IsJump(t) == tasks[t].kind = "_jump" /\ tasks[t].n # 0

CallJumpPop(n) ==
  /\ microQ = <<>>
  /\ Len(tasks) < MaxTasks
  /\ index + n \in 1..Len(entries)
  /\ index' = index + n
  /\ entries' = entries
  /\ LET task == NewTask("_jumpPop", n, entries[index + n], prevUrl,
                         _jump(entries[index + n], n, TRUE, prevUrl))
     IN IF task.steps = <<>>
          THEN /\ tasks' = Append(tasks, task)
               /\ last' = [NoStep EXCEPT !.h = "_jumpPop", !.id = Len(tasks) + 1]
               /\ UNCHANGED <<settleVars, microQ>>
          ELSE Start(task)
  /\ UNCHANGED <<popVars, browserVars, testMode, userPops>>
  /\ UNCHANGED <<translation, mw>>

\* Jumps by zero and jumps for pops; none of them reaches the chain of lines
\* 163-166, so its callbacks are not among the steps
NextJump ==
  \/ CallJump(0)
  \/ \E n \in JumpDeltas : CallJumpPop(n)
  \/ \E d \in {-1, 1} : UserPop(d)
  \/ Traverse
  \/ GateCommit
  \/ MicroNative
  \/ Timer

SpecJump == InitOps /\ [][NextJump]_vars

\* -------------------------------------------------------- claim C11

IsJumpCall(t) == tasks[t].kind \in {"_jump", "_jumpPop"}

\* a _jump for a pop with n # 0 has started no wait and issued no native call
PopJumpIdle ==
  \A t \in DOMAIN tasks : (tasks[t].kind = "_jumpPop" /\ tasks[t].n # 0) =>
    /\ WaitsOf(t) = <<>>
    /\ tasks[t].steps = <<>>
    /\ tasks[t].gos = 0 /\ tasks[t].reps = 0 /\ tasks[t].pushes = 0

\* a _jump with n = 0 is the chain of a plain _replace of the current entry: one
\* wait for prevUrl, started by the call, then replaceState once, and no go
\* and no pushState
ZeroJumpReplaces ==
  \A t \in DOMAIN tasks : (IsJumpCall(t) /\ tasks[t].n = 0) =>
    /\ Urls(WaitsOf(t)) = <<tasks[t].prev>>
    /\ tasks[t].steps \in {<<ReplaceState(tasks[t].url)>>, <<>>}
    /\ tasks[t].reps = 1 - Len(tasks[t].steps)
    /\ tasks[t].gos = 0 /\ tasks[t].pushes = 0
    /\ tasks[t].url = tasks[t].prev

\* the step is the gate approving a pop
CommitStep == Len(gate') < Len(gate) /\ closure'.st = "committed"

\* the step is a call of _jump for a pop with n # 0
PopJumpStep ==
  /\ Len(tasks') = Len(tasks) + 1
  /\ tasks'[Len(tasks')].kind = "_jumpPop"
  /\ tasks'[Len(tasks')].n # 0

\* C11: _jump for a pop with n # 0 (the gate approving a pop, or a jump flagged
\* as a pop) issues no go, pushState or replaceState, starts no settle-wait and
\* leaves the forced flag as it is; _jump with n = 0 is a plain replace of the
\* current entry, for a pop as for any other call.
C11_PopJumpIsNoop ==
  /\ [](PopJumpIdle /\ ZeroJumpReplaces)
  /\ [][(CommitStep \/ PopJumpStep) =>
          UNCHANGED <<popForced, natStack, natPos, travQ, tries, queue, timer, waits,
                      completed, microQ>>]_vars

C11_Witness ==
  /\ closure.st = "committed"
  /\ \E t \in DOMAIN tasks : tasks[t].kind = "_jumpPop" /\ tasks[t].n # 0
  /\ \E t \in DOMAIN tasks : tasks[t].kind = "_jumpPop" /\ tasks[t].n = 0 /\ tasks[t].reps = 1

\* ----------------------------------------- specification: set-state

\* History.setState commits for the entry at offset n: entries and index stay,
\* and _setState is called (lines 169-183)
CallSetState(n) ==
  /\ microQ = <<>>
  /\ index + n \in 1..Len(entries)
  /\ Start(NewTask("_setState", n, entries[index + n], prevUrl,
                   _setState(entries[index + n], n, prevUrl)))
  /\ UNCHANGED <<popVars, engineVars, browserVars, testMode, userPops>>
  /\ UNCHANGED <<translation, mw>>

NextSet ==
  \/ \E n \in JumpDeltas : CallSetState(n)
  \/ MicroAwait
  \/ MicroThenable
  \/ MicroSettle
  \/ MicroGo
  \/ MicroNative
  \/ Timer
  \/ Traverse

SpecSet == InitOps /\ [][NextSet]_vars

\* -------------------------------------------------------- claim C12

\* a set-state at a non-zero offset
IsSetState(t) == tasks[t].kind = "_setState" /\ tasks[t].n # 0

\* the step just taken resolved the result of chain t
Resolves(t) == last.h = "settle" /\ last.id = t /\ tasks[t].steps = <<>>

\* C12: a set-state at offset n # 0 waits for prevUrl, force-navigates by n,
\* waits for the target entry's URL, issues replaceState while the browser
\* reports that URL, force-navigates by -n and waits for prevUrl again, each
\* step after the wait before it completed; when its result resolves the
\* browser is back where it was and both pops were suppressed (none is pending
\* or at the gate, the forced flag is clear).
C12_SetStateRoundTrip ==
  /\ \A t \in DOMAIN tasks : IsSetState(t) =>
        /\ tasks[t].pushes = 0 /\ tasks[t].gos <= 2 /\ tasks[t].reps <= 1
        /\ \E k \in 0..4 : Urls(WaitsOf(t)) =
              SubSeq(<<tasks[t].prev, tasks[t].url, tasks[t].url, tasks[t].prev>>, 1, k)
        /\ Resolves(t) =>
              /\ locationToUrl = tasks[t].prev /\ natPos = index
              /\ gate = <<>> /\ pendingPop = 0 /\ ~popForced
  /\ (last.h = "go" /\ IsSetState(last.id)) =>
        /\ AllDone(WaitsOf(last.id))
        /\ tasks[last.id].gos = 1 =>
              (last.go = <<tasks[last.id].n>> /\ Len(WaitsOf(last.id)) = 1)
        /\ tasks[last.id].gos = 2 =>
              (last.go = <<-tasks[last.id].n>> /\ Len(WaitsOf(last.id)) = 3
               /\ tasks[last.id].reps = 1)
  /\ (last.h = "native" /\ IsSetState(last.id)) =>
        /\ last.native = "replaceState" /\ tasks[last.id].gos = 1
        /\ Len(WaitsOf(last.id)) = 3 /\ AllDone(WaitsOf(last.id))
        /\ last.from = tasks[last.id].url

\* --------------------------------------------- specification: reset

\* History.reset commits the entries es and the index i, and _reset is called
\* (lines 185-204); this.entries, this.index and prevUrl are those before the
\* commit.  From the first entry _reset would call go(0), which reloads the
\* page: the resets here start from a later entry.
CallReset(es, i) ==
  /\ microQ = <<>>
  /\ index > 1
  /\ Cardinality({t \in DOMAIN tasks : tasks[t].kind = "_reset"}) < MaxResets
  /\ entries' = es
  /\ index' = i
  /\ Start(NewTask("_reset", -(index - 1), entries[1], prevUrl,
                   _reset(entries[1], -(index - 1), prevUrl)))
  /\ UNCHANGED <<popVars, browserVars, testMode, userPops>>
  /\ UNCHANGED <<translation, mw>>

NextReset ==
  \/ \E es \in EntryLists : \E i \in DOMAIN es : CallReset(es, i)
  \/ MicroAwait
  \/ MicroThenable
  \/ MicroSettle
  \/ MicroGo
  \/ MicroReset
  \/ MicroNative
  \/ Timer
  \/ Traverse

SpecReset == InitOps /\ [][NextReset]_vars

\* -------------------------------------------------------- claim C13

IsReset(t) == tasks[t].kind = "_reset"

\* the _replace and _push calls made by reset t, and those whose native call
\* has been issued
ResetOps(t) == {c \in DOMAIN tasks : c > t}
Issued(c) == tasks[c].steps = <<>>

\* nothing of reset t is outstanding
ResetOver(t) ==
  /\ tasks[t].steps = <<>>
  /\ \A c \in ResetOps(t) : Issued(c)
  /\ travQ = <<>> /\ microQ = <<>>

\* C13: a reset force-navigates to the first entry, then issues replaceState
\* for the new first entry and pushState for every later new entry in order,
\* and only after all of them the force-navigation by index - lastIndex, which
\* it issues exactly when the target index is not the last; afterwards the
\* native stack holds the new entries and the browser is at the target index.
C13_ResetOrder ==
  /\ (last.h = "reset" /\ last.go # <<>>) =>
        \A c \in ResetOps(last.id) : Issued(c)
  /\ last.h = "reset" => (last.go # <<>> <=> index # Len(entries))
  /\ (last.h = "native" /\ \E t \in DOMAIN tasks : IsReset(t) /\ last.id \in ResetOps(t)) =>
        \A c \in DOMAIN tasks : (c < last.id /\ \E t \in DOMAIN tasks : IsReset(t) /\ c \in ResetOps(t))
                                   => Issued(c)
  /\ \A t \in DOMAIN tasks : (IsReset(t) /\ ResetOver(t)) =>
        (natStack = entries /\ natPos = index)

\* ------------------------------------------------ specification: pops

\* The engine's entries mirror the browser's stack and nothing is in flight
InitPop ==
  /\ entries \in EntryLists
  /\ index \in 1..NumEntries
  /\ pendingPop = 0
  /\ popForced = FALSE
  /\ gate = <<>>
  /\ closure = NoClosure
  /\ natStack = entries
  /\ natPos = index
  /\ travQ = <<>>
  /\ tries = 0
  /\ queue = <<>>
  /\ timer = 0
  /\ waits = <<>>
  /\ completed = <<>>
  /\ testMode \in BOOLEAN
  /\ tasks = <<>>
  /\ microQ = <<>>
  /\ userPops = 0
  /\ last = NoStep
  /\ args = NoCall
  /\ result = NoResult
  /\ mw = NoRun

NextPop ==
  \/ \E d \in {-1, 1} : UserPop(d)
  \/ Traverse
  \/ GateCommit
  \/ GateVeto
  \/ RevertAgain

SpecPop == InitPop /\ [][NextPop]_vars

\* ---------------------------------------------------- claims C1 - C4

SecondPop == last.h = "handlePop" /\ ~last.forced /\ last.pending # 0

\* C1 as stated: a pop handled while pop p is pending and reporting the engine's
\* current URL issues exactly one force-navigation, by -p, and no jump().
C1_ReversalForcesFlipped ==
  (SecondPop /\ last.sameUrl) =>
    (last.go = <<-last.pending>> /\ last.jumps = 0)

\* C1 amended: a pop handled while pop p is pending and reporting the engine's
\* current URL issues exactly one force-navigation, by p itself (the flipped
\* direction -p negated again), calls no jump() and leaves pendingPop at p.
C1_ReversalForcesPending ==
  (SecondPop /\ last.sameUrl) =>
    (last.go = <<last.pending>> /\ last.jumps = 0 /\ pendingPop = last.pending)

C1_Witness ==
  SecondPop /\ last.sameUrl /\ last.pending = -1 /\ last.go = <<-1>> /\ last.by = "user"

\* C2: the pop event that follows a _forceGo is ignored (no force-navigation, no
\* jump(), pendingPop kept) and clears the forced flag, and a pop the engine
\* caused itself is never handed to the gate.
C2_EnginePopNeverGated ==
  /\ (last.h = "handlePop" /\ last.forced) =>
       (last.go = <<>> /\ last.jumps = 0 /\ pendingPop = last.pending /\ ~popForced)
  /\ (last.h = "handlePop" /\ last.jumps = 1) => last.by = "user"

\* C3: once the gate has vetoed a first pop of direction n and the revert callback
\* was called (any number of times), exactly one force-navigation, by -n, was
\* issued, entries and index are what they were, and when that navigation has
\* been performed the browser is back at its position before the pop.
C3_VetoRestoresBrowser ==
  (closure.st = "vetoed" /\ closure.by = "user" /\ closure.clean) =>
    /\ closure.gos = <<-closure.n>>
    /\ entries = closure.preEntries
    /\ index = closure.preIndex
    /\ (travQ = <<>> => natPos = closure.prePos)

\* C4: a pop handled while pop p is pending and reporting another URL than the
\* engine's issues one force-navigation by -p, calls no jump() and keeps
\* pendingPop; jump() is called only when no pop is pending, so at most one pop
\* is at the gate.
C4_RepeatForcesInverse ==
  /\ (SecondPop /\ ~last.sameUrl) =>
       (last.go = <<-last.pending>> /\ last.jumps = 0 /\ pendingPop = last.pending)
  /\ (last.h = "handlePop" /\ last.jumps = 1) => (~last.forced /\ last.pending = 0)
  /\ Len(gate) <= 1
  /\ (gate # <<>>) => pendingPop = gate[1].n

C4_Witness ==
  SecondPop /\ ~last.sameUrl /\ last.go = <<-last.pending>> /\ Len(gate) = 1

\* -------------------------------------------------------- claim C21

\* the traversals the engine asked for with _forceGo and the browser has not
\* performed yet
EnginePending == {i \in DOMAIN travQ : travQ[i].by = "engine"}

\* C21: the forced flag is set exactly when one pop event caused by the
\* engine's own force-navigation is still undelivered; a pop of the user is
\* never swallowed by the flag, and a pop the engine caused is never handled
\* as a pop of the user.
C21_FlagMeansOneEnginePop ==
  /\ popForced <=> Cardinality(EnginePending) = 1
  /\ (last.h = "handlePop" /\ last.forced) => last.by = "engine"
  /\ (last.h = "handlePop" /\ last.by = "engine") => last.forced

\* ------------------------------------------- the translator: values
\* A string is the sequence of its characters.  JavaScript values are tagged:
\* undefined, a string, a number, an object (its keys and their values), or
\* what a hook supplied by the application returned for its arguments.
Undefined == [t |-> "undefined"]
Str(s) == [t |-> "string", s |-> s]
Num(n) == [t |-> "number", n |-> n]
Obj(o) == [t |-> "object", o |-> o]
Returned(hook, a) == [t |-> "returned", by |-> hook, a |-> a]

\* a call that threw
Throw(e) == [t |-> "throw", e |-> e]
\* a call that returned v
Return(v) == [t |-> "return", v |-> v]

\* the characters of raw path parameters: a letter, a hyphen, a digit (also a
\* hexadecimal digit) and the percent sign
ValChars == {"m", "-", "4", "%"}
MaxValLen == 3

Strings(chars, n) == UNION {[1..k -> chars] : k \in 0..n}

\* a raw path parameter: a segment of the path (not empty), or undefined for
\* an optional parameter the URL does not have
RawValues == {Undefined} \cup {Str(s) : s \in Strings(ValChars, MaxValLen) \ {<<>>}}

\* the values of route.convertNumbers and route.capitalizedWords; a value of
\* the options that is not true behaves as an unset one
Flags == {"undefined", "true", "false"}

Digits == {"4"}
DigitValue(c) == IF c = "4" THEN 4 ELSE 0
\* \w of a regular expression, over the characters that occur
WordChars == {"m", "M", "4", "D", "a", "A", "b", "B"}
toUpperCase(c) ==
  IF c = "m" THEN "M" ELSE IF c = "a" THEN "A" ELSE IF c = "b" THEN "B" ELSE c

\* decodeURIComponent: "%" with two hexadecimal digits is one byte; %44 is "D",
\* the only escape over ValChars.  Any other "%" is malformed: URIError.
RECURSIVE decodeURIComponent(_)
decodeURIComponent(s) ==
  IF s = <<>> THEN Return(<<>>)
  ELSE IF Head(s) # "%"
    THEN LET r == decodeURIComponent(Tail(s))
         IN IF r.t = "throw" THEN r ELSE Return(<<Head(s)>> \o r.v)
  ELSE IF Len(s) >= 3 /\ s[2] = "4" /\ s[3] = "4"
    THEN LET r == decodeURIComponent(SubSeq(s, 4, Len(s)))
         IN IF r.t = "throw" THEN r ELSE Return(<<"D">> \o r.v)
  ELSE Throw("URIError")

\* line 118: /^\d+$/.test(val); test() converts undefined to "undefined"
isNumber(val) ==
  /\ val.t = "string"
  /\ val.s # <<>>
  /\ \A i \in DOMAIN val.s : val.s[i] \in Digits

RECURSIVE parseFloat(_)
parseFloat(s) ==
  IF s = <<>> THEN 0 ELSE 10 * parseFloat(SubSeq(s, 1, Len(s) - 1)) + DigitValue(s[Len(s)])

\* line 75: .replace(/-/g, ' ').replace(/\b\w/g, l => l.toUpperCase())
Capitalized(s) ==
  LET spaced == [i \in DOMAIN s |-> IF s[i] = "-" THEN " " ELSE s[i]]
  IN [i \in DOMAIN s |->
        IF spaced[i] \in WordChars /\ (i = 1 \/ spaced[i - 1] \notin WordChars)
        THEN toUpperCase(spaced[i]) ELSE spaced[i]]

\* ---------------------------------------- the translator: fromPath
\* A route and the options carry flags and hooks.  A hook is "none" (not
\* defined), "fn" (a function, whose result is Returned) or, for the route's
\* fromPath, "drop" (a function returning undefined); defaultParams is "none",
\* "object" or "fn".
RouteDefaults == [p |-> Str(<<"r">>), d |-> Str(<<"r">>)]
OptsDefaults == [p |-> Str(<<"o">>), d |-> Str(<<"o">>)]

\* lines 64-65 and 71-72
Enabled(routeFlag, optsFlag) ==
  routeFlag = "true" \/ (optsFlag = "true" /\ routeFlag # "false")

\* a variant of defaultFromPath that capitalizes before it looks for a number
defaultFromPath_capitalizeFirst(decodedVal, key, val, route, opts) ==
  IF Enabled(route.capitalizedWords, opts.capitalizedWords)
    THEN IF decodedVal.t = "string" THEN Return(Str(Capitalized(decodedVal.s)))
                                    ELSE Throw("TypeError")
  ELSE IF Enabled(route.convertNumbers, opts.convertNumbers) /\ isNumber(decodedVal)
    THEN Return(Num(parseFloat(decodedVal.s)))
  ELSE IF opts.fromPath # "none"
    THEN Return(Returned("opts.fromPath", <<decodedVal, key, val>>))
  ELSE Return(decodedVal)

\* lines 57-81: defaultFromPath
defaultFromPath(decodedVal, key, val, route, opts) ==
  IF Enabled(route.convertNumbers, opts.convertNumbers) /\ isNumber(decodedVal)
    THEN Return(Num(parseFloat(decodedVal.s)))
  ELSE IF Enabled(route.capitalizedWords, opts.capitalizedWords)
    THEN IF decodedVal.t = "string" THEN Return(Str(Capitalized(decodedVal.s)))
                                    ELSE Throw("TypeError")
  ELSE IF opts.fromPath # "none"
    THEN Return(Returned("opts.fromPath", <<decodedVal, key, val>>))
  ELSE Return(decodedVal)

\* lines 42 and 47: from(decodedVal, key, val, route, opts)
From(decodedVal, key, val, route, opts) ==
  IF route.fromPath = "fn" THEN Return(Returned("route.fromPath", <<decodedVal, key, val>>))
  ELSE IF route.fromPath = "drop" THEN Return(Undefined)
  ELSE defaultFromPath(decodedVal, key, val, route, opts)

\* lines 45-47: one turn of the loop, for the raw value val of key
\* (line 46: val && decodeURIComponent(val); undefined and '' are not decoded)
Transformed(val, key, route, opts) ==
  LET falsy == val.t # "string" \/ val.s = <<>>
      dec == IF falsy THEN Return(<<>>) ELSE decodeURIComponent(val.s)
  IN IF dec.t = "throw" THEN dec
     ELSE From(IF falsy THEN val ELSE Str(dec.v), key, val, route, opts)

\* a variant of Spread in which the defaults win: { ...params, ...def }
Spread_defaultsWin(def, params) ==
  [k \in DOMAIN def \cup DOMAIN params |-> IF k \in DOMAIN def THEN def[k] ELSE params[k]]

\* line 53: { ...def, ...params }
Spread(def, params) ==
  [k \in DOMAIN def \cup DOMAIN params |-> IF k \in DOMAIN params THEN params[k] ELSE def[k]]

\* line 51: route.defaultParams || opts.defaultParams
DefaultParams(route, opts) ==
  IF route.defaultParams = "object" THEN [kind |-> "object", o |-> RouteDefaults, by |-> "route.defaultParams"]
  ELSE IF route.defaultParams = "fn" THEN [kind |-> "fn", o |-> <<>>, by |-> "route.defaultParams"]
  ELSE IF opts.defaultParams = "object" THEN [kind |-> "object", o |-> OptsDefaults, by |-> "opts.defaultParams"]
  ELSE IF opts.defaultParams = "fn" THEN [kind |-> "fn", o |-> <<>>, by |-> "opts.defaultParams"]
  ELSE [kind |-> "none", o |-> <<>>, by |-> "none"]

\* lines 52-54: the defaults merged under the transformed params
Merge(def, params) ==
  IF def.kind = "fn" THEN Returned(def.by, <<Obj(params)>>)
  ELSE IF def.kind = "object" THEN Obj(Spread(def.o, params))
  ELSE Obj(params)

\* lines 41-55: fromPath.  params maps each key to its raw value; a key whose
\* transformed value is undefined is deleted (line 48); the first throw ends
\* the call.
fromPath(params, route, opts) ==
  LET tr == [k \in DOMAIN params |-> Transformed(params[k], k, route, opts)]
      thrown == {k \in DOMAIN params : tr[k].t = "throw"}
      kept == {k \in DOMAIN params : tr[k].v # Undefined}
  IN IF thrown # {} THEN tr[CHOOSE k \in thrown : TRUE]
     ELSE Return(Merge(DefaultParams(route, opts), [k \in kept |-> tr[k].v]))

\* --------------------------------------- specification: fromPath
historyVars == <<entries, index, pendingPop, popForced, gate, closure, natStack, natPos,
                 travQ, tries, queue, timer, waits, completed, testMode, tasks, microQ,
                 userPops, last>>

\* a BrowserHistory on which nothing happens while the translator is examined
InitHistory ==
  /\ entries = <<1>> /\ index = 1
  /\ pendingPop = 0 /\ popForced = FALSE /\ gate = <<>> /\ closure = NoClosure
  /\ natStack = <<1>> /\ natPos = 1 /\ travQ = <<>>
  /\ tries = 0 /\ queue = <<>> /\ timer = 0 /\ waits = <<>> /\ completed = <<>>
  /\ testMode = FALSE /\ tasks = <<>> /\ microQ = <<>> /\ userPops = 0
  /\ last = NoStep

\* the fields of a route and of the options that fromPath reads
PathRoutes ==
  [convertNumbers : Flags, capitalizedWords : Flags,
   fromPath : {"none", "fn", "drop"}, defaultParams : {"none", "object", "fn"}]
PathOptions ==
  [convertNumbers : {"undefined", "true"}, capitalizedWords : {"undefined", "true"},
   fromPath : {"none", "fn"}, defaultParams : {"none", "object", "fn"}]

\* the raw params of a match: no parameter, or the parameter p
RawParams == {<<>>} \cup {[p |-> v] : v \in RawValues}

InitFromPath ==
  /\ InitHistory
  /\ args \in [fn : {"fromPath"}, params : RawParams, route : PathRoutes, opts : PathOptions]
  /\ result = NoResult
  /\ mw = NoRun

\* matchUrl calls transformers.fromPath(params, route, opts)
CallFromPath ==
  /\ args.fn = "fromPath"
  /\ result = NoResult
  /\ result' = fromPath(args.params, args.route, args.opts)
  /\ UNCHANGED <<args, mw, historyVars>>

NextFromPath == CallFromPath

SpecFromPath == InitFromPath /\ [][NextFromPath]_vars

\* ------------------------------------------------ claims C17 - C19

\* the call of fromPath has returned (not thrown)
FromPathReturned == args.fn = "fromPath" /\ result.t = "return"
Defaults == DefaultParams(args.route, args.opts)
HasParam == "p" \in DOMAIN args.params
\* the parameter p is in the URL / is an optional parameter the URL lacks
Present == HasParam /\ args.params.p.t = "string"
Absent == HasParam /\ args.params.p = Undefined
\* the transformed value of p, when its transform returns
TransformedP == Transformed(args.params.p, "p", args.route, args.opts).v
\* the transformed params: the keys whose transformed value is not undefined
Explicit == IF HasParam /\ TransformedP # Undefined THEN [p |-> TransformedP] ELSE <<>>

\* C17: with an object as defaultParams the result holds every transformed
\* parameter that is not undefined, with its transformed value, and a default
\* for exactly the other keys of the defaults; with a function as
\* defaultParams the result is what the function returns for the params.
C17_DefaultsFillGaps ==
  FromPathReturned =>
    /\ Defaults.kind = "object" =>
         /\ result.v.t = "object"
         /\ DOMAIN result.v.o = DOMAIN Explicit \cup DOMAIN Defaults.o
         /\ \A k \in DOMAIN Explicit : result.v.o[k] = Explicit[k]
         /\ \A k \in DOMAIN Defaults.o \ DOMAIN Explicit : result.v.o[k] = Defaults.o[k]
    /\ Defaults.kind = "fn" => result.v = Returned(Defaults.by, <<Obj(Explicit)>>)

\* an explicit parameter kept beside a default, and an undefined one replaced
C17_Witness ==
  /\ FromPathReturned /\ Defaults.kind = "object"
  /\ Present /\ Explicit # <<>>
  /\ result.v.o.p = TransformedP /\ result.v.o.p # Defaults.o.p
  /\ result.v.o.d = Defaults.o.d

C17_WitnessGap ==
  /\ FromPathReturned /\ Defaults.kind = "object"
  /\ Present /\ Explicit = <<>>
  /\ result.v.o.p = Defaults.o.p

C17_WitnessFn ==
  /\ FromPathReturned /\ Defaults.kind = "fn" /\ Present
  /\ result.v.t = "returned"

\* the params fromPath hands to the defaults step, read back from its result
ResultParams ==
  IF Defaults.kind = "fn" THEN result.v.a[1].o
  ELSE IF Defaults.kind = "object" /\ "p" \notin DOMAIN Explicit THEN <<>>
  ELSE [k \in {"p"} \cap DOMAIN result.v.o |-> result.v.o[k]]

ConvertNumbers ==
  \/ args.route.convertNumbers = "true"
  \/ args.opts.convertNumbers = "true" /\ args.route.convertNumbers # "false"
CapitalizedWords ==
  \/ args.route.capitalizedWords = "true"
  \/ args.opts.capitalizedWords = "true" /\ args.route.capitalizedWords # "false"
Decoded == decodeURIComponent(args.params.p.s).v
AllDigits(s) == s # <<>> /\ \A i \in DOMAIN s : s[i] \in Digits
HookArgs == <<Str(Decoded), "p", args.params.p>>

\* C18: a present path parameter is transformed by exactly one rule: the
\* route's fromPath when defined; else the number, when numeric conversion is
\* enabled and the decoded value is all digits ("44" gives 44); else the
\* capitalized words, when capitalization is enabled ("m-m" gives "M M");
\* else the global fromPath; else the decoded value itself.
C18_OneRuleByPrecedence ==
  (FromPathReturned /\ Present) =>
    /\ args.route.fromPath = "fn" =>
         ResultParams = [p |-> Returned("route.fromPath", HookArgs)]
    /\ args.route.fromPath = "drop" => ResultParams = <<>>
    /\ args.route.fromPath = "none" =>
         ResultParams =
           [p |-> IF ConvertNumbers /\ AllDigits(Decoded) THEN Num(parseFloat(Decoded))
                  ELSE IF CapitalizedWords THEN Str(Capitalized(Decoded))
                  ELSE IF args.opts.fromPath = "fn" THEN Returned("opts.fromPath", HookArgs)
                  ELSE Str(Decoded)]
    /\ (args.route.fromPath = "none" /\ ConvertNumbers /\ args.params.p = Str(<<"4", "4">>)) =>
         ResultParams = [p |-> Num(44)]
    /\ (args.route.fromPath = "none" /\ ~ConvertNumbers /\ CapitalizedWords
          /\ args.params.p = Str(<<"m", "-", "m">>)) =>
         ResultParams = [p |-> Str(<<"M", " ", "M">>)]

\* digits with both numeric conversion and capitalization enabled
C18_Witness ==
  /\ FromPathReturned /\ Present
  /\ args.route.fromPath = "none" /\ ConvertNumbers /\ CapitalizedWords
  /\ args.opts.fromPath = "fn"
  /\ args.params.p = Str(<<"4", "4">>)
  /\ ResultParams = [p |-> Num(44)]

\* C19: an optional parameter absent from the URL is neither decoded nor
\* transformed (no hook and no default transform is invoked on it), and the
\* result holds its key only if defaultParams supplies it.
C19_AbsentParamUntouched ==
  (args.fn = "fromPath" /\ Absent /\ result # NoResult) =>
    /\ result.t = "return"
    /\ Defaults.kind = "none" => result.v = Obj(<<>>)
    /\ Defaults.kind = "object" => result.v = Obj(Defaults.o)
    /\ Defaults.kind = "fn" => result.v = Returned(Defaults.by, <<Obj(<<>>)>>)

\* -------------------------------------- the translator: urlToAction
\* the characters of URLs: the separators and two letters
UrlChars == {"/", "a", "b", "?", "#"}
MaxUrlLen == 5

\* the position of the first occurrence of b in s, 0 when there is none
IndexOf(s, b) ==
  LET at == {i \in 1..(Len(s) - Len(b) + 1) : SubSeq(s, i, i + Len(b) - 1) = b}
  IN IF at = {} THEN 0 ELSE CHOOSE i \in at : \A j \in at : i <= j

\* line 16: url.replace(basename, '') with a string as the pattern: the first
\* occurrence of basename is removed, wherever it is
Replace(s, b) ==
  LET i == IndexOf(s, b)
  IN IF i = 0 THEN s ELSE SubSeq(s, 1, i - 1) \o SubSeq(s, i + Len(b), Len(s))

\* urlToLocation (../history/utils): the path is cut at the first "#", and
\* what is before it at the first "?"
urlToLocation(path) ==
  LET h == IndexOf(path, <<"#">>)
      front == IF h = 0 THEN path ELSE SubSeq(path, 1, h - 1)
      q == IndexOf(front, <<"?">>)
  IN [pathname |-> IF q = 0 THEN front ELSE SubSeq(front, 1, q - 1),
      search |-> IF q = 0 THEN <<>> ELSE SubSeq(front, q + 1, Len(front)),
      hash |-> IF h = 0 THEN <<>> ELSE SubSeq(path, h + 1, Len(path))]

\* the segments of a pathname: what stands between its slashes
RECURSIVE Segments(_)
Segments(pathname) ==
  IF pathname = <<>> THEN <<>>
  ELSE LET rest == Tail(pathname)
           i == IndexOf(rest, <<"/">>)
       IN IF Head(pathname) # "/" THEN <<pathname>>
          ELSE IF i = 0 THEN <<rest>>
          ELSE <<SubSeq(rest, 1, i - 1)>> \o Segments(SubSeq(rest, i, Len(rest)))

\* A path pattern is a sequence of segments: "lit" (a literal), "param" (a
\* named parameter) or "opt" (an optional named parameter, last in the path).
Lit(c) == [kind |-> "lit", s |-> <<c>>]
Param(k) == [kind |-> "param", s |-> k]
Opt(k) == [kind |-> "opt", s |-> k]
NoPath == Undefined
Path(segs) == [t |-> "path", segs |-> segs]

\* the match of the pathname against a pattern (the whole pathname must be
\* consumed): the raw params, or "none"
RawMatch(pathname, segs) ==
  LET given == Segments(pathname)
      n == Len(given)
      fits == /\ n <= Len(segs)
              /\ \A i \in 1..n : /\ given[i] # <<>>
                                 /\ segs[i].kind = "lit" => segs[i].s = given[i]
              /\ \A i \in (n + 1)..Len(segs) : segs[i].kind = "opt"
              /\ (pathname # <<>> /\ Head(pathname) = "/")
      keys == {i \in DOMAIN segs : segs[i].kind # "lit"}
  IN IF ~fits THEN [found |-> FALSE, params |-> <<>>]
     ELSE [found |-> TRUE,
           params |-> [k \in {segs[i].s : i \in keys} |->
                         LET i == CHOOSE j \in keys : segs[j].s = k
                         IN IF i <= n THEN Str(given[i]) ELSE Undefined]]

\* lines 109-114: fromState
StateDefaults == [d |-> Str(<<"s">>)]
fromState(state, route, opts) ==
  IF route.defaultState = "fn" THEN Returned("route.defaultState", <<state>>)
  ELSE IF route.defaultState = "object" THEN Obj(Spread(StateDefaults, state.o))
  ELSE IF opts.defaultState = "fn" THEN Returned("opts.defaultState", <<state>>)
  ELSE IF opts.defaultState = "object" THEN Obj(Spread(StateDefaults, state.o))
  ELSE state

\* lines 120-121: (routes.NOT_FOUND.parseQuery || opts.parseQuery)(search)
NotFoundRoute(routes) == routes[CHOOSE i \in DOMAIN routes : routes[i].type = "NOT_FOUND"]
\* a variant of parseQuery that never parses: the query is always empty
parseQuery_empty(search, routes, opts) == Return(Obj(<<>>))

parseQuery(search, routes, opts) ==
  IF NotFoundRoute(routes).parseQuery = "fn"
    THEN Return(Returned("routes.NOT_FOUND.parseQuery", <<Str(search)>>))
  ELSE IF opts.parseQuery = "fn" THEN Return(Returned("opts.parseQuery", <<Str(search)>>))
  ELSE Throw("TypeError")

\* matchUrl (./index): null when the pathname does not match the route's path;
\* else the params through transformers.fromPath, the query parsed with the
\* options' parseQuery, and the hash.  The routes and options examined define
\* no fromSearch, fromHash, defaultQuery or defaultHash: fromSearch and
\* fromHash (lines 83-107) then return their argument.
matchUrl(l, route, opts) ==
  LET m == RawMatch(l.pathname, route.path.segs)
      params == fromPath(m.params, route, opts)
  IN IF ~m.found THEN [found |-> FALSE]
     ELSE IF params.t = "throw" THEN [found |-> TRUE, thrown |-> TRUE, e |-> params]
     ELSE [found |-> TRUE, thrown |-> FALSE,
           params |-> params.v,
           query |-> IF l.search = <<>> THEN Obj(<<>>)
                     ELSE Returned("parseQuery", <<Str(l.search)>>),
           hash |-> Str(l.hash)]

\* line 31: `${scene}/NOT_FOUND`
ScopedNotFound(scene) == IF scene = "" THEN "/NOT_FOUND" ELSE "s/NOT_FOUND"

\* line 31: routes[..] && .. is undefined when the table has no such route
NoType == ""

\* notFound (../actions): { type: type || NOT_FOUND, state }
notFound(state, type) ==
  [type |-> IF type = NoType THEN "NOT_FOUND" ELSE type, state |-> state]

\* a variant of PathTypes that lists the routes from the last declared
PathTypes_reversed(routes) ==
  LET withPath == SelectSeq(routes, LAMBDA r : r.path # NoPath)
  IN [i \in DOMAIN withPath |-> withPath[Len(withPath) + 1 - i]]

\* line 15: the types of the routes that have a path, in declaration order
PathTypes(routes) == SelectSeq(routes, LAMBDA r : r.path # NoPath)

\* lines 8-39: urlToAction; routes is the route table in declaration order.
\* `tried` lists the routes matchUrl was called for.
urlToAction(loc, routes, opts, scene) ==
  LET types == PathTypes(routes)
      path == Replace(loc.url, loc.basename)
      l == urlToLocation(path)
      hits == {i \in DOMAIN types : matchUrl(l, types[i], opts).found}
      i == CHOOSE j \in hits : \A k \in hits : j <= k
      match == matchUrl(l, types[i], opts)
      scoped == ScopedNotFound(scene)
      type == IF \E r \in DOMAIN routes : routes[r].type = scoped THEN scoped ELSE NoType
      query == IF l.search # <<>> THEN parseQuery(l.search, routes, opts) ELSE Return(Obj(<<>>))
  IN IF hits # {}
       THEN IF match.thrown THEN match.e @@ [tried |-> SubSeq(types, 1, i)]
            ELSE [t |-> "return", tried |-> SubSeq(types, 1, i),
                  v |-> [type |-> types[i].type, params |-> match.params, query |-> match.query,
                         hash |-> match.hash, basename |-> loc.basename,
                         state |-> fromState(loc.state, types[i], opts)]]
     ELSE IF query.t = "throw" THEN query @@ [tried |-> types]
     ELSE [t |-> "return", tried |-> types,
           v |-> notFound(loc.state, type) @@
                 [basename |-> loc.basename, params |-> Obj(<<>>), query |-> query.v,
                  hash |-> Str(l.hash)]]

\* ------------------------------------ specification: urlToAction
\* a route without hooks
Route(type, path) ==
  [type |-> type, path |-> path, convertNumbers |-> "undefined",
   capitalizedWords |-> "undefined", fromPath |-> "none", defaultParams |-> "none",
   defaultState |-> "none", parseQuery |-> "none"]

\* NOT_FOUND has the path /n, which no URL over UrlChars has
NotFoundPath == Path(<<Lit("n")>>)

\* A table as createRoutes builds it (src/__helpers__/createTest.js, lines
\* 219-231): a pathless route among the others; /a matches A and ANY, and
\* the scene s has its own NOT_FOUND.
TableScenes ==
  <<Route("NEVER_USED_PATHLESS", NoPath),
    Route("A", Path(<<Lit("a")>>)),
    Route("ANY", Path(<<Param("p")>>)),
    Route("AB", Path(<<Lit("a"), Lit("b")>>)),
    Route("s/NOT_FOUND", NotFoundPath),
    Route("NOT_FOUND", NotFoundPath)>>

\* the general route first; NOT_FOUND parses the query itself
TableAnyFirst ==
  <<Route("ANY", Path(<<Param("p")>>)),
    Route("NEVER_USED_PATHLESS", NoPath),
    Route("A", Path(<<Lit("a")>>)),
    [Route("NOT_FOUND", NotFoundPath) EXCEPT !.parseQuery = "fn"]>>

\* a route with an optional parameter and its own defaultState
TableOptional ==
  <<Route("NEVER_USED_PATHLESS", NoPath),
    [Route("OPT", Path(<<Lit("a"), Opt("p")>>)) EXCEPT !.defaultState = "object"],
    Route("A", Path(<<Lit("a")>>)),
    Route("NOT_FOUND", NotFoundPath)>>

RouteTables == {TableScenes, TableAnyFirst, TableOptional}

\* the URLs: they start with a slash
InboundUrls == {u \in Strings(UrlChars, MaxUrlLen) : u # <<>> /\ u[1] = "/"}
Basenames == {<<>>, <<"/", "b">>}
Scenes == {"", "s"}
States == {Obj(<<>>), Obj([k |-> Str(<<"v">>)])}

TranslateOptions ==
  [convertNumbers : {"undefined"}, capitalizedWords : {"undefined", "true"},
   fromPath : {"none"}, defaultParams : {"none", "object"},
   defaultState : {"none", "object"}, parseQuery : {"none", "fn"}]

\* the query can be parsed: the router is set up with a parseQuery, in the
\* options or on the NOT_FOUND route
CanParse(routes, opts) == parseQuery(<<>>, routes, opts).t = "return"

InitTranslate ==
  /\ InitHistory
  /\ args \in [fn : {"urlToAction"}, loc : [url : InboundUrls, basename : Basenames, state : States],
               routes : RouteTables, opts : TranslateOptions, scene : Scenes]
  /\ CanParse(args.routes, args.opts)
  /\ result = NoResult
  /\ mw = NoRun

Translate ==
  /\ args.fn = "urlToAction"
  /\ result = NoResult
  /\ result' = urlToAction(args.loc, args.routes, args.opts, args.scene)
  /\ UNCHANGED <<args, mw, historyVars>>

NextTranslate == Translate

SpecTranslate == InitTranslate /\ [][NextTranslate]_vars

\* ------------------------------------------- claims C14 - C16, C20

Translated == args.fn = "urlToAction" /\ result # NoResult
\* the location the routes are matched against
Stripped == urlToLocation(Replace(args.loc.url, args.loc.basename))
\* the routes with a path that match it, by their place in the table
Matching ==
  {i \in DOMAIN args.routes :
     /\ args.routes[i].path # NoPath
     /\ RawMatch(Stripped.pathname, args.routes[i].path.segs).found}
HasRoute(type) == \E i \in DOMAIN args.routes : args.routes[i].type = type
ParsedBy ==
  IF NotFoundRoute(args.routes).parseQuery = "fn" THEN "routes.NOT_FOUND.parseQuery"
  ELSE "opts.parseQuery"

\* C14: for a URL that matches no route with a path, translate returns a
\* NOT_FOUND action: its type is `${scene}/NOT_FOUND` when the table has that
\* type and NOT_FOUND otherwise, its params are empty, its query is the parsed
\* search string when there is one and empty otherwise, its hash is the raw
\* hash or the empty string, and its state is the inbound state.
C14_NotFoundAction ==
  (Translated /\ Matching = {}) =>
    /\ result.t = "return"
    /\ result.v.type = (IF HasRoute(ScopedNotFound(args.scene))
                        THEN ScopedNotFound(args.scene) ELSE "NOT_FOUND")
    /\ result.v.params = Obj(<<>>)
    /\ result.v.query = (IF Stripped.search # <<>>
                         THEN Returned(ParsedBy, <<Str(Stripped.search)>>) ELSE Obj(<<>>))
    /\ result.v.hash = Str(Stripped.hash)
    /\ result.v.state = args.loc.state

\* no route matches, the scene has its NOT_FOUND, there are a search string,
\* a hash and a state
C14_Witness ==
  /\ Translated /\ Matching = {}
  /\ result.t = "return" /\ result.v.type = "s/NOT_FOUND"
  /\ Stripped.search # <<>> /\ Stripped.hash # <<>>
  /\ result.v.query.t = "returned"
  /\ args.loc.state # Obj(<<>>) /\ result.v.state = args.loc.state

Pathless == {i \in DOMAIN args.routes : args.routes[i].path = NoPath}
\* the first matching route, and the routes with a path declared up to it
First == CHOOSE i \in Matching : \A j \in Matching : i <= j
UpTo(i) == SelectSeq(SubSeq(args.routes, 1, i), LAMBDA r : r.path # NoPath)

\* C15: translate tries only the routes with a path, in declaration order, and
\* returns the action of the first that matches without trying a later one;
\* the type of its action is never a pathless route.
C15_FirstPathRouteWins ==
  Translated =>
    /\ \A k \in DOMAIN result.tried : result.tried[k].path # NoPath
    /\ Matching # {} => result.tried = UpTo(First)
    /\ Matching = {} => result.tried = UpTo(Len(args.routes))
    /\ (result.t = "return" /\ Matching # {}) => result.v.type = args.routes[First].type
    /\ result.t = "return" => \A i \in Pathless : result.v.type # args.routes[i].type

\* a pathless route is declared before the match, and a later route matches too
C15_Witness ==
  /\ Translated /\ result.t = "return"
  /\ Matching # {} /\ Cardinality(Matching) > 1
  /\ \E i \in Pathless : i < First
  /\ result.v.type = args.routes[First].type
  /\ Len(result.tried) < Len(PathTypes(args.routes))

ActionFields == {"type", "params", "query", "hash", "state", "basename"}

\* C16: for every URL, route table and options translate returns an action
\* with the fields type, params, query, hash, state and basename, whether a
\* route matches or not, and never throws.
C16_AlwaysAnAction ==
  Translated => (result.t = "return" /\ DOMAIN result.v = ActionFields)

\* C20: translate removes the basename only when the URL begins with it; a URL
\* that holds the basename only further on is translated with its path whole.
StartsWith(s, b) == Len(b) <= Len(s) /\ SubSeq(s, 1, Len(b)) = b
WithoutPrefix(s, b) == IF StartsWith(s, b) THEN SubSeq(s, Len(b) + 1, Len(s)) ELSE s
C20_BasenameOnlyAsPrefix ==
  Translated =>
    LET whole == [args.loc EXCEPT !.url = WithoutPrefix(args.loc.url, args.loc.basename),
                                  !.basename = <<>>]
        expected == urlToAction(whole, args.routes, args.opts, args.scene)
    IN /\ result.t = expected.t
       /\ result.t = "return" => result.v = [expected.v EXCEPT !.basename = args.loc.basename]

\* ------------------------------------------------ the call middleware
\* (src/unnamed/part_002)  A lifecycle callback is absent, or a function that
\* returns (or resolves to) false, undefined or a truthy value, rejects, or
\* throws before it returns.
False == [t |-> "boolean", b |-> FALSE]
CallbackKinds == {"absent", "false", "undefined", "truthy", "rejects", "throws"}
LifecycleNames == {"beforeLeave", "beforeEnter", "onLeave", "onEnter", "thunk", "onComplete"}
LocationKinds == {"init", "load", "push"}

\* line 4: noop returns undefined
noop == Undefined

\* what a callback of kind k returns or resolves to; who tells the values of
\* the route's and of the global callback apart
Value(k, who) ==
  IF k = "false" THEN False
  ELSE IF k = "truthy" THEN Str(<<who>>)
  ELSE noop

\* a promise that is not settled, resolved with v and rejected with e
Pending == [st |-> "pending"]
ResolvedWith(v) == [st |-> "resolved", v |-> v]
Rejected(e) == [st |-> "rejected", e |-> e]

Truthy(v) == v # False /\ v # Undefined

\* a variant of isFalse that takes every falsy value for false: !a || !b
isFalse_falsy(a, b) == ~Truthy(a) \/ ~Truthy(b)

\* line 5: isFalse
isFalse(a, b) == a = False \/ b = False

\* lines 25-35: defaultShouldCall.  c.ssrInit is isLoadSSR(state, 'init'),
\* c.ssr is isLoadSSR(state) and c.server is isServer().
defaultShouldCall(c) ==
  IF c.ssrInit /\ c.name \in {"beforeLeave", "beforeEnter"} THEN FALSE
  ELSE IF c.server /\ c.name \in {"onLeave", "onEnter"} THEN FALSE
  ELSE IF c.ssr /\ c.name = "thunk" THEN FALSE
  ELSE IF c.name = "beforeLeave" /\ c.kind = "init" THEN FALSE
  ELSE IF c.name = "onLeave" /\ c.kind = "load" THEN FALSE
  ELSE TRUE

\* lines 8-9: req.options.shouldCall || defaultShouldCall
shouldCall(c) ==
  IF c.shouldCall = "none" THEN defaultShouldCall(c) ELSE c.shouldCall = "permit"

\* lines 11-14: the kinds of routeCb and globalCb
routeCb(c) == IF c.prev THEN c.prevRoute ELSE c.route
globalCb(c) == c.global

\* the run of the middleware before it is called
NotCalled == [pc |-> "start", denied |-> FALSE, calledRoute |-> FALSE, calledGlobal |-> FALSE,
           a |-> Pending, b |-> Pending, first |-> "none", nextCalls |-> 0]

\* lines 7-16: the middleware is called and runs to its first await (or to its
\* return when shouldCall denies): next() is called at once on a denial; else
\* routeCb(req) and then globalCb(req) are called, and a callback that throws
\* ends the call before anything after it
Invoke ==
  /\ args.fn = "call"
  /\ mw.pc = "start"
  /\ IF ~shouldCall(args)
       THEN /\ mw' = [mw EXCEPT !.pc = "awaitNext", !.denied = TRUE, !.nextCalls = @ + 1]
            /\ result' = result
     ELSE IF routeCb(args) = "throws"
       THEN /\ mw' = [mw EXCEPT !.pc = "done", !.calledRoute = TRUE]
            /\ result' = Throw("routeCb")
     ELSE IF globalCb(args) = "throws"
       THEN /\ mw' = [mw EXCEPT !.pc = "done", !.calledRoute = TRUE, !.calledGlobal = TRUE]
            /\ result' = Throw("globalCb")
     ELSE /\ mw' = [mw EXCEPT !.pc = "awaitAll", !.calledRoute = TRUE, !.calledGlobal = TRUE]
          /\ result' = result
  /\ UNCHANGED <<args, historyVars>>

\* the promise of routeCb(req) settles
RouteSettles ==
  /\ mw.pc = "awaitAll"
  /\ mw.a = Pending
  /\ mw' = IF routeCb(args) = "rejects"
             THEN [mw EXCEPT !.a = Rejected("routeCb"),
                             !.first = IF @ = "none" THEN "routeCb" ELSE @]
             ELSE [mw EXCEPT !.a = ResolvedWith(Value(routeCb(args), "r"))]
  /\ UNCHANGED <<args, result, historyVars>>

\* the promise of globalCb(req) settles
GlobalSettles ==
  /\ mw.pc = "awaitAll"
  /\ mw.b = Pending
  /\ mw' = IF globalCb(args) = "rejects"
             THEN [mw EXCEPT !.b = Rejected("globalCb"),
                             !.first = IF @ = "none" THEN "globalCb" ELSE @]
             ELSE [mw EXCEPT !.b = ResolvedWith(Value(globalCb(args), "g"))]
  /\ UNCHANGED <<args, result, historyVars>>

\* lines 16-20: Promise.all has settled (rejected with the first rejection, or
\* resolved when both have resolved) and the call goes on: it rejects, returns
\* false, or calls next()
AfterAll ==
  /\ mw.pc = "awaitAll"
  /\ \/ mw.first # "none"
     \/ mw.a.st = "resolved" /\ mw.b.st = "resolved"
  /\ IF mw.first # "none"
       THEN /\ mw' = [mw EXCEPT !.pc = "done"]
            /\ result' = Throw(mw.first)
     ELSE IF isFalse(mw.a.v, mw.b.v)
       THEN /\ mw' = [mw EXCEPT !.pc = "done"]
            /\ result' = Return(False)
     ELSE /\ mw' = [mw EXCEPT !.pc = "awaitNext", !.nextCalls = @ + 1]
          /\ result' = result
  /\ UNCHANGED <<args, historyVars>>

\* lines 9 and 20-22: the promise of next() settles: the call returns what
\* next() resolved to on a denial, a || b otherwise, and rejects when next()
\* rejected
NextSettles ==
  /\ mw.pc = "awaitNext"
  /\ mw' = [mw EXCEPT !.pc = "done"]
  /\ result' = IF args.next = "rejects" THEN Throw("next")
               ELSE IF mw.denied THEN Return(Str(<<"n">>))
               ELSE Return(IF Truthy(mw.a.v) THEN mw.a.v ELSE mw.b.v)
  /\ UNCHANGED <<args, historyVars>>

\* --------------------------------------- specification: middleware
\* the calls whose shouldCall is the application's
CustomCalls ==
  [fn : {"call"}, shouldCall : {"permit", "deny"}, name : {"thunk"}, kind : {"push"},
   server : {FALSE}, ssrInit : {FALSE}, ssr : {FALSE},
   prev : BOOLEAN, route : CallbackKinds, prevRoute : {"absent", "truthy"},
   global : CallbackKinds, next : {"resolves", "rejects"}]

\* the calls decided by defaultShouldCall
DefaultCalls ==
  [fn : {"call"}, shouldCall : {"none"}, name : LifecycleNames, kind : LocationKinds,
   server : BOOLEAN, ssrInit : BOOLEAN, ssr : BOOLEAN,
   prev : BOOLEAN, route : CallbackKinds, prevRoute : {"absent", "truthy"},
   global : CallbackKinds, next : {"resolves", "rejects"}]

InitCall ==
  /\ InitHistory
  /\ args \in CustomCalls \cup DefaultCalls
  /\ result = NoResult
  /\ mw = NotCalled

NextCall ==
  \/ Invoke
  \/ RouteSettles
  \/ GlobalSettles
  \/ AfterAll
  \/ NextSettles

SpecCall == InitCall /\ [][NextCall]_vars

\* -------------------------------------------------------- claim C22

Called == args.fn = "call" /\ mw.pc # "start"
Permitted == Called /\ ~mw.denied
Denied == Called /\ mw.denied
Done == Called /\ mw.pc = "done"
BothResolved == mw.a.st = "resolved" /\ mw.b.st = "resolved"
ResolvedFalse(q) == q.st = "resolved" /\ q.v = False
EitherFalse == ResolvedFalse(mw.a) \/ ResolvedFalse(mw.b)

\* C22 as stated: when shouldCall permits, the route's and the global callback
\* are both invoked; if either resolves to exactly false, next is never invoked
\* and the result is false; otherwise next is invoked exactly once, only after
\* both callbacks have resolved, and the result is the route callback's value
\* when truthy and the global callback's otherwise.  When shouldCall denies,
\* neither callback is invoked and next is invoked exactly once.
C22_CallbacksThenNext ==
  /\ Permitted => (mw.calledRoute /\ mw.calledGlobal)
  /\ (Permitted /\ Done /\ EitherFalse) => (mw.nextCalls = 0 /\ result = Return(False))
  /\ (Permitted /\ Done /\ ~EitherFalse) =>
       /\ mw.nextCalls = 1
       /\ BothResolved
       /\ result = Return(IF Truthy(mw.a.v) THEN mw.a.v ELSE mw.b.v)
  /\ (Permitted /\ mw.nextCalls > 0) => BothResolved
  /\ Denied => (~mw.calledRoute /\ ~mw.calledGlobal /\ mw.nextCalls = 1)

\* a callback threw before returning, a callback's promise was rejected first,
\* next() rejected
Threw == result.t = "throw" /\ result.e \in {"routeCb", "globalCb"} /\ mw.first = "none"
RejectedFirst == mw.first # "none"
NextRejected == mw.nextCalls = 1 /\ args.next = "rejects"

\* C22 amended: the statement holds for callbacks that return and whose
\* promises resolve, and for a next() that resolves.  A route callback that
\* throws keeps the global callback from being invoked; a callback that throws
\* or whose promise is rejected first makes the call reject without invoking
\* next, even when the other callback resolves to false; when next() rejects
\* the call rejects.  next is never invoked more than once, and never before
\* both callbacks have resolved.
C22_CallbacksThenNextUnlessError ==
  /\ Permitted => (mw.calledRoute /\ (mw.calledGlobal <=> routeCb(args) # "throws"))
  /\ (Permitted /\ Done /\ (Threw \/ RejectedFirst)) =>
       (mw.nextCalls = 0 /\ result.t = "throw")
  /\ (Permitted /\ Done /\ ~Threw /\ ~RejectedFirst /\ EitherFalse) =>
       (mw.nextCalls = 0 /\ result = Return(False))
  /\ (Permitted /\ Done /\ ~Threw /\ ~RejectedFirst /\ ~EitherFalse) =>
       /\ mw.nextCalls = 1
       /\ BothResolved
       /\ result = (IF NextRejected THEN Throw("next")
                    ELSE Return(IF Truthy(mw.a.v) THEN mw.a.v ELSE mw.b.v))
  /\ mw.pc # "none" => mw.nextCalls <= 1
  /\ (Permitted /\ mw.nextCalls > 0) => BothResolved
  /\ Denied => (~mw.calledRoute /\ ~mw.calledGlobal /\ mw.nextCalls = 1)

\* both callbacks resolved, the route's to undefined and the global one to a
\* truthy value: next was invoked once and the result is the global value
C22_Witness ==
  /\ Permitted /\ Done /\ BothResolved
  /\ mw.a.v = Undefined /\ Truthy(mw.b.v)
  /\ mw.nextCalls = 1
  /\ result = Return(mw.b.v)

\* the route callback resolves to false and the global one rejects
C22_WitnessError ==
  /\ Permitted /\ Done /\ ResolvedFalse(mw.a) /\ mw.b.st = "rejected"
  /\ result.t = "throw" /\ mw.nextCalls = 0

====
